---- MODULE Spec2Model ----
(***************************************************************************)
(* A model of the celib INI reader and writer (src/ce_ini.h; src/ini.h is  *)
(* the same reader under the names INI_Parse / parseKey).                  *)
(*                                                                         *)
(* Characters are their codes in the C locale, so that isalnum, isprint    *)
(* and iscntrl are the ranges of <ctype.h>.  A text is the sequence of its *)
(* non-NUL characters; position p (1-based) past the end reads as NUL.     *)
(***************************************************************************)
EXTENDS Integers, Sequences, FiniteSets, Bags, TLC

(***************************************************************************)
(* Program constants                                                       *)
(***************************************************************************)
CE_INI_MAX_SECTION_LENGTH == 32
CE_INI_MAX_NAME_LENGTH == 32
CE_INI_MAX_VALUE_LENGTH == 64
CE_INI_MAX_WRITE_OPTIONS == 256

\* err() returns NULL; text positions start at 1, so 0 is free to stand for it
NULL == 0

\* character literals of the source
NUL == 0
TAB == 9
NL == 10
CR == 13
SP == 32
QUOTE == 34
MINUS == 45
DOT == 46
SEMI == 59
EQUALS == 61
LBRACKET == 91
BACKSLASH == 92
RBRACKET == 93
UNDERSCORE == 95
LOWER_N == 110
LOWER_T == 116

\* <ctype.h>, "C" locale
isgraph(c) == c \in 33..126
isalnum(c) == c \in 48..57 \/ c \in 65..90 \/ c \in 97..122
isprint(c) == c \in 32..126
iscntrl(c) == c \in 0..31 \/ c = 127

\* *str : the terminating NUL is read at position Len(text) + 1
At(text, p) == IF p \in 1..Len(text) THEN text[p] ELSE NUL

(***************************************************************************)
(* String skipping                                                         *)
(***************************************************************************)
\* a blank skipper that does not stop at the end of the line
RECURSIVE skipWhitespaceAcrossLines(_, _)
skipWhitespaceAcrossLines(text, str) ==
    LET c == At(text, str)
    IN  IF c # NUL /\ (iscntrl(c) \/ c = SP)
        THEN skipWhitespaceAcrossLines(text, str + 1)
        ELSE str

RECURSIVE skipWhitespace(_, _)
skipWhitespace(text, str) ==
    LET c == At(text, str)
    IN  IF c # NUL /\ c # NL /\ (iscntrl(c) \/ c = SP)
        THEN skipWhitespace(text, str + 1)
        ELSE str

RECURSIVE skipToFirstReadableChar(_, _)
skipToFirstReadableChar(text, str) ==
    LET c == At(text, str)
    IN  IF c # NUL /\ (iscntrl(c) \/ c = SP)
        THEN skipToFirstReadableChar(text, str + 1)
        ELSE str

RECURSIVE SkipToNewline(_, _)
SkipToNewline(text, str) ==
    LET c == At(text, str)
    IN  IF c # NUL /\ c # NL THEN SkipToNewline(text, str + 1) ELSE str

RECURSIVE SkipNewlines(_, _)
SkipNewlines(text, str) ==
    LET c == At(text, str)
    IN  IF c # NUL /\ c = NL THEN SkipNewlines(text, str + 1) ELSE str
\* a comment skipper that stops at the first blank instead of the end of line
RECURSIVE nextWord(_, _)
nextWord(text, str) ==
    LET c == At(text, str)
    IN  IF c # NUL /\ c # NL /\ c # SP THEN nextWord(text, str + 1) ELSE str

nextLine(text, str) == SkipNewlines(text, SkipToNewline(text, str))

\* A sub-parser returns  str : the position it returns (NULL on failure),
\*                       at  : where its own cursor stood when it returned,
\*                       out : the string left in its out buffer.
Ret(str, at, out) == [str |-> str, at |-> at, out |-> out]

skipEquality(text, str) ==
    LET s == skipWhitespace(text, str)
    IN  IF At(text, s) # EQUALS
        THEN Ret(NULL, s, <<>>)
        ELSE LET e == skipWhitespace(text, s + 1) IN Ret(e, e, <<>>)

\* a bound check that lets one character too many in
FitsOneMore(n, max) == n < max

\* if(!(n < MAX - 1)) return err("... too long") : is there room for one
\* more character and the terminator
Fits(n, max) == n < max - 1

\* The loops that fill an out buffer are run one iteration at a time on a
\* loop state  str : the cursor,  out : out[0..n),
\*             rc  : "loop" while iterating, "exit" once the loop condition
\*                   is false, "fail" once the body has returned err(...).
Loop(str, out, rc) == [str |-> str, out |-> out, rc |-> rc]

(***************************************************************************)
(* Section parsing                                                         *)
(***************************************************************************)
SectionStep(text, st) ==
    IF st.rc # "loop" THEN st
    ELSE LET c == At(text, st.str)
         IN  IF c # NUL /\ c # RBRACKET
             THEN IF ~(isalnum(c) \/ c = MINUS \/ c = UNDERSCORE \/ c = SP)
                  THEN Loop(st.str, st.out, "fail")
                  ELSE IF ~Fits(Len(st.out), CE_INI_MAX_SECTION_LENGTH)
                  THEN Loop(st.str, st.out, "fail")
                  ELSE Loop(st.str + 1, Append(st.out, c), "loop")
             ELSE Loop(st.str, st.out, "exit")

\* n iterations of the loop (none changes a state that has left the loop)
RECURSIVE SectionRun(_, _, _)
SectionRun(text, st, n) ==
    IF n = 0 THEN st
    ELSE IF n = 1 THEN SectionStep(text, st)
    ELSE LET half == SectionRun(text, st, n \div 2)
         IN  IF half.rc # "loop" THEN half
             ELSE SectionRun(text, half, n - n \div 2)

parseSection(text, str) ==
    IF At(text, str) = NUL
    THEN Ret(NULL, str, <<>>)
    ELSE IF At(text, str) # LBRACKET
    THEN Ret(NULL, str + 1, <<>>)
    ELSE LET st == SectionRun(text, Loop(str + 1, <<>>, "loop"), Len(text) + 1)
         IN  IF st.rc = "fail" THEN Ret(NULL, st.str, st.out)
             ELSE IF At(text, st.str) = NUL THEN Ret(NULL, st.str, st.out)
             ELSE Ret(st.str + 1, st.str + 1, st.out)

(***************************************************************************)
(* Name parsing                                                            *)
(***************************************************************************)
NameStep(text, st) ==
    IF st.rc # "loop" THEN st
    ELSE LET c == At(text, st.str)
         IN  IF c # NUL /\ c # SP /\ c # EQUALS
             THEN IF ~(isalnum(c) \/ c = DOT \/ c = MINUS \/ c = UNDERSCORE)
                  THEN Loop(st.str, st.out, "fail")
                  ELSE IF ~Fits(Len(st.out), CE_INI_MAX_NAME_LENGTH)
                  THEN Loop(st.str, st.out, "fail")
                  ELSE Loop(st.str + 1, Append(st.out, c), "loop")
             ELSE Loop(st.str, st.out, "exit")

RECURSIVE NameRun(_, _, _)
NameRun(text, st, n) ==
    IF n = 0 THEN st
    ELSE IF n = 1 THEN NameStep(text, st)
    ELSE LET half == NameRun(text, st, n \div 2)
         IN  IF half.rc # "loop" THEN half
             ELSE NameRun(text, half, n - n \div 2)

parseName(text, str) ==
    LET st == NameRun(text, Loop(str, <<>>, "loop"), Len(text) + 1)
    IN  IF st.rc = "fail" THEN Ret(NULL, st.str, st.out)
        ELSE IF Len(st.out) = 0 THEN Ret(NULL, st.str, st.out)
        ELSE Ret(st.str, st.str, st.out)

(***************************************************************************)
(* Value parsing                                                           *)
(***************************************************************************)
\* a value parser that leaves the trailing spaces in
KeepTrailingSpaces(out) == out

\* while(n > 0 && out[n - 1] == ' ') out[--n] = '\0';
RECURSIVE TrimTrailingSpaces(_)
TrimTrailingSpaces(out) ==
    IF Len(out) > 0 /\ out[Len(out)] = SP
    THEN TrimTrailingSpaces(SubSeq(out, 1, Len(out) - 1))
    ELSE out

UnquotedStep(text, st) ==
    IF st.rc # "loop" THEN st
    ELSE LET c == At(text, st.str)
         IN  IF c # NUL /\ (c # NL /\ c # CR) /\ c # SEMI
             THEN IF ~(isprint(c) \/ c = TAB)
                  THEN Loop(st.str, st.out, "fail")
                  ELSE IF ~Fits(Len(st.out), CE_INI_MAX_VALUE_LENGTH)
                  THEN Loop(st.str, st.out, "fail")
                  ELSE Loop(st.str + 1, Append(st.out, c), "loop")
             ELSE Loop(st.str, st.out, "exit")

RECURSIVE UnquotedRun(_, _, _)
UnquotedRun(text, st, n) ==
    IF n = 0 THEN st
    ELSE IF n = 1 THEN UnquotedStep(text, st)
    ELSE LET half == UnquotedRun(text, st, n \div 2)
         IN  IF half.rc # "loop" THEN half
             ELSE UnquotedRun(text, half, n - n \div 2)

parseUnquotedValue(text, str) ==
    LET st == UnquotedRun(text, Loop(str, <<>>, "loop"), Len(text) + 1)
    IN  IF st.rc = "fail" THEN Ret(NULL, st.str, st.out)
        ELSE Ret(st.str, st.str, TrimTrailingSpaces(st.out))

\* an escape decoder that lets any escaped character stand for itself
UnescapeAnything(e) ==
    IF e = LOWER_T THEN TAB ELSE IF e = LOWER_N THEN NL ELSE e

\* the switch of parseQuotedValue: the character an escape stands for, NUL
\* for the default branch
Unescape(e) ==
    IF e = QUOTE THEN QUOTE
    ELSE IF e = BACKSLASH THEN BACKSLASH
    ELSE IF e = LOWER_T THEN TAB
    ELSE IF e = LOWER_N THEN NL
    ELSE NUL

QuotedStep(text, st) ==
    IF st.rc # "loop" THEN st
    ELSE LET c == At(text, st.str)
             e == At(text, st.str + 1)
         IN  IF c # NUL /\ (c # NL /\ c # CR) /\ c # SEMI /\ c # QUOTE
             THEN IF c = BACKSLASH
                  THEN IF Unescape(e) = NUL
                       THEN Loop(st.str + 2, st.out, "fail")
                       ELSE IF ~Fits(Len(st.out), CE_INI_MAX_VALUE_LENGTH)
                       THEN Loop(st.str + 2, st.out, "fail")
                       ELSE Loop(st.str + 2, Append(st.out, Unescape(e)), "loop")
                  ELSE IF ~(isprint(c) \/ c = TAB)
                       THEN Loop(st.str, st.out, "fail")
                       ELSE IF ~Fits(Len(st.out), CE_INI_MAX_VALUE_LENGTH)
                       THEN Loop(st.str + 1, st.out, "fail")
                       ELSE Loop(st.str + 1, Append(st.out, c), "loop")
             ELSE Loop(st.str, st.out, "exit")

RECURSIVE QuotedRun(_, _, _)
QuotedRun(text, st, n) ==
    IF n = 0 THEN st
    ELSE IF n = 1 THEN QuotedStep(text, st)
    ELSE LET half == QuotedRun(text, st, n \div 2)
         IN  IF half.rc # "loop" THEN half
             ELSE QuotedRun(text, half, n - n \div 2)

\* a closing-quote check that steps on without looking for the end of input
ClosingQuoteUnguarded(text, str, out) ==
    IF At(text, str) # QUOTE
    THEN Ret(NULL, str + 1, out)
    ELSE Ret(str + 1, str + 1, out)

\* if(*str && *(str++) != '"') return err("ending quote not found");
\* return str;
ClosingQuote(text, str, out) ==
    LET c == At(text, str)
    IN  IF c # NUL /\ c # QUOTE
        THEN Ret(NULL, str + 1, out)
        ELSE IF c # NUL THEN Ret(str + 1, str + 1, out)
        ELSE Ret(str, str, out)

parseQuotedValue(text, str) ==
    LET c == At(text, str)
        st == QuotedRun(text, Loop(IF c # NUL THEN str + 1 ELSE str, <<>>, "loop"),
                        Len(text) + 1)
    IN  IF c # NUL /\ c # QUOTE
        THEN Ret(NULL, str + 1, <<>>)
        ELSE IF st.rc = "fail" THEN Ret(NULL, st.str, st.out)
        ELSE ClosingQuote(text, st.str, st.out)

parseValue(text, str) ==
    IF At(text, str) = QUOTE
    THEN parseQuotedValue(text, str)
    ELSE parseUnquotedValue(text, str)

(***************************************************************************)
(* Input documents                                                         *)
(*                                                                         *)
(* A document is a sequence of lines.  Each line carries its text and what *)
(* the format says it is: a header (setsec, sec), an entry (entry, key,    *)
(* val), both, or neither (comment, blank), and its flaw when malformed:   *)
(*   "eol"  a quoted value the end of the line cuts short,                 *)
(*   "eof"  a quoted value the end of the input cuts short,                *)
(*   "over" a field one character over its bound,                          *)
(*   "trail" an unquoted value of 63 characters and a trailing space,      *)
(*   "after" a well-formed entry with a malformed rest on the same line,   *)
(*   "escape" a backslash before a character that is no escape,            *)
(*   "noeq" a key with no '=' after it on its line,                        *)
(*   "form" any other malformation.                                        *)
(***************************************************************************)
MaxLines == 2

Chr == [a |-> 97, b |-> 98, c |-> 99, g |-> 103, k |-> 107, q |-> 113,
        s |-> 115, t |-> 116, v |-> 118, w |-> 119, x |-> 120, y |-> 121,
        two |-> 50, bang |-> 33, soh |-> 1]

Rep(c, n) == [j \in 1..n |-> c]

Line(t, setsec, sec, entry, key, val, flaw) ==
    [t |-> t, setsec |-> setsec, sec |-> sec, entry |-> entry,
     key |-> key, val |-> val, flaw |-> flaw]

Header(t, sec) == Line(t, TRUE, sec, FALSE, <<>>, <<>>, "none")
Entry(t, key, val) == Line(t, FALSE, <<>>, TRUE, key, val, "none")
Other(t) == Line(t, FALSE, <<>>, FALSE, <<>>, <<>>, "none")
BadHeader(t, sec, flaw) == Line(t, TRUE, sec, FALSE, <<>>, <<>>, flaw)
BadEntry(t, key, val, flaw) == Line(t, FALSE, <<>>, TRUE, key, val, flaw)

K == <<Chr.k>>
V == <<Chr.v>>

\* lines a document is freely built from
CoreLines ==
    { Header(<<LBRACKET, Chr.s, RBRACKET, NL>>, <<Chr.s>>),        \* [s]
      Entry(<<Chr.k, EQUALS, Chr.v, NL>>, K, V),                    \* k=v
      Other(<<SEMI, SP, LBRACKET, Chr.c, EQUALS, NL>>),             \* ; [c=
      Other(<<SP, NL>>) }                                           \* blank

\* well-formed lines that exercise one rule each
GoodLines ==
    { \* a.b = x y  <CR>
      Entry(<<Chr.a, DOT, Chr.b, SP, EQUALS, SP, Chr.x, SP, Chr.y, SP, SP, CR, NL>>,
            <<Chr.a, DOT, Chr.b>>, <<Chr.x, SP, Chr.y>>),
      \* q="a "
      Entry(<<Chr.q, EQUALS, QUOTE, Chr.a, SP, QUOTE, NL>>, <<Chr.q>>, <<Chr.a, SP>>),
      \* q="\"\\\t\n"
      Entry(<<Chr.q, EQUALS, QUOTE, BACKSLASH, QUOTE, BACKSLASH, BACKSLASH,
              BACKSLASH, LOWER_T, BACKSLASH, LOWER_N, QUOTE, NL>>,
            <<Chr.q>>, <<QUOTE, BACKSLASH, TAB, NL>>),
      \* k=v  ;c
      Entry(<<Chr.k, EQUALS, Chr.v, SP, SP, SEMI, Chr.c, NL>>, K, V),
      \* <TAB> k=        (empty value)
      Entry(<<TAB, SP, Chr.k, EQUALS, NL>>, K, <<>>),
      \* k=<TAB>v<TAB>x<TAB>
      Entry(<<Chr.k, EQUALS, TAB, Chr.v, TAB, Chr.x, TAB, NL>>,
            K, <<Chr.v, TAB, Chr.x, TAB>>),
      \* []
      Header(<<LBRACKET, RBRACKET, NL>>, <<>>),
      \* [t_2 -]k=v     (header and entry on one line)
      Line(<<LBRACKET, Chr.t, UNDERSCORE, Chr.two, SP, MINUS, RBRACKET,
             Chr.k, EQUALS, Chr.v, NL>>,
           TRUE, <<Chr.t, UNDERSCORE, Chr.two, SP, MINUS>>, TRUE, K, V, "none"),
      \* fields exactly at their bounds
      Header(<<LBRACKET>> \o Rep(Chr.s, 31) \o <<RBRACKET, NL>>, Rep(Chr.s, 31)),
      Entry(Rep(Chr.k, 31) \o <<EQUALS, Chr.v, NL>>, Rep(Chr.k, 31), V),
      Entry(<<Chr.k, EQUALS>> \o Rep(Chr.v, 63) \o <<NL>>, K, Rep(Chr.v, 63)),
      Entry(<<Chr.k, EQUALS, QUOTE, BACKSLASH, LOWER_T>> \o Rep(Chr.v, 61)
               \o <<SP, QUOTE, NL>>,
            K, <<TAB>> \o Rep(Chr.v, 61) \o <<SP>>) }

\* malformed lines
BadLines ==
    { BadEntry(<<Chr.k, SP, Chr.v, NL>>, K, V, "noeq"),                      \* k v
      BadEntry(<<Chr.k, SP, NL, EQUALS, Chr.v, NL>>, K, V, "noeq"),          \* k <NL>=v
      BadEntry(<<Chr.k, SP, CR, NL>>, K, <<>>, "noeq"),                      \* k <CR>
      BadEntry(<<Chr.k, EQUALS, QUOTE, Chr.v, NL>>, K, V, "eol"),            \* k="v
      BadEntry(<<Chr.k, EQUALS, QUOTE, Chr.v, CR, NL>>, K, V, "eol"),        \* k="v<CR>
      BadEntry(<<Chr.k, EQUALS, QUOTE, Chr.a, SEMI, Chr.b, QUOTE, NL>>,      \* k="a;b"
               K, <<Chr.a, SEMI, Chr.b>>, "form"),
      BadHeader(<<LBRACKET, Chr.s, NL>>, <<Chr.s>>, "form"),                 \* [s
      BadHeader(<<LBRACKET, Chr.s, Chr.bang, RBRACKET, NL>>,                 \* [s!]
                <<Chr.s, Chr.bang>>, "form"),
      BadEntry(<<EQUALS, Chr.v, NL>>, <<>>, V, "form"),                      \* =v
      BadEntry(<<Chr.k, Chr.bang, EQUALS, Chr.v, NL>>,                       \* k!=v
               <<Chr.k, Chr.bang>>, V, "form"),
      BadEntry(<<Chr.k, NL>>, K, <<>>, "noeq"),                              \* k
      BadEntry(<<Chr.k, EQUALS, Chr.a, Chr.soh, Chr.b, NL>>,                 \* k=a^Ab
               K, <<Chr.a, Chr.soh, Chr.b>>, "form"),
      BadEntry(<<Chr.k, EQUALS, QUOTE, Chr.a, BACKSLASH, Chr.x, QUOTE, NL>>, \* k="a\x"
               K, <<Chr.a>>, "escape"),
      BadEntry(<<Chr.k, EQUALS, QUOTE, BACKSLASH, SP, QUOTE, NL>>,           \* k="\ "
               K, <<>>, "escape"),
      BadEntry(<<Chr.k, EQUALS, QUOTE, Chr.a, BACKSLASH, NL>>,               \* k="a\<NL>
               K, <<Chr.a>>, "escape"),
      \* fields one over their bounds
      BadHeader(<<LBRACKET>> \o Rep(Chr.s, 32) \o <<RBRACKET, NL>>, Rep(Chr.s, 32), "over"),
      BadEntry(Rep(Chr.k, 32) \o <<EQUALS, Chr.v, NL>>, Rep(Chr.k, 32), V, "over"),
      BadEntry(<<Chr.k, EQUALS>> \o Rep(Chr.v, 64) \o <<NL>>, K, Rep(Chr.v, 64), "over"),
      BadEntry(<<Chr.k, EQUALS, QUOTE, BACKSLASH, LOWER_T>> \o Rep(Chr.v, 63)
                  \o <<QUOTE, NL>>,
               K, <<TAB>> \o Rep(Chr.v, 63), "over"),
      \* 63 characters and a trailing space: a run of 64
      BadEntry(<<Chr.k, EQUALS>> \o Rep(Chr.v, 63) \o <<SP, NL>>,
               K, Rep(Chr.v, 63), "trail"),
      \* q="a"k v
      BadEntry(<<Chr.q, EQUALS, QUOTE, Chr.a, QUOTE, Chr.k, SP, Chr.v, NL>>,
               <<Chr.q>>, <<Chr.a>>, "after") }

\* last lines that the end of the input ends
EofLines ==
    { Entry(<<Chr.k, EQUALS, Chr.v, SP>>, K, V),                             \* k=v<SP><EOF>
      Entry(<<Chr.k, EQUALS>>, K, <<>>),                                     \* k=<EOF>
      BadEntry(<<Chr.k, EQUALS, QUOTE, Chr.v>>, K, V, "eof"),                \* k="v<EOF>
      BadEntry(<<Chr.k, EQUALS, QUOTE>>, K, <<>>, "eof"),                    \* k="<EOF>
      BadEntry(<<Chr.k, EQUALS, QUOTE, Chr.a, BACKSLASH>>, K, <<Chr.a>>, "escape"), \* k="a\<EOF>
      BadHeader(<<LBRACKET, Chr.s>>, <<Chr.s>>, "form"),                     \* [s<EOF>
      BadHeader(<<LBRACKET>>, <<>>, "form"),                                 \* [<EOF>
      BadEntry(<<Chr.k>>, K, <<>>, "noeq"),                                  \* k<EOF>
      BadEntry(<<Chr.k, SP>>, K, <<>>, "noeq") }                             \* k<SP><EOF>

\* the line that may follow a special line
FollowLine == Entry(<<Chr.k, Chr.two, EQUALS, Chr.w, NL>>, <<Chr.k, Chr.two>>, <<Chr.w>>)

CoreSeqs == UNION { [1..n -> CoreLines] : n \in 0..MaxLines }

Endings ==
    {<<>>} \cup { <<l>> : l \in GoodLines \cup BadLines \cup EofLines }
           \cup { <<l, FollowLine>> : l \in GoodLines \cup BadLines }

RECURSIVE TextOf(_)
TextOf(ls) == IF ls = <<>> THEN <<>> ELSE Head(ls).t \o TextOf(Tail(ls))

\* what an uninitialised char[32] may hold, read as a string
Garbage == { <<>>, <<Chr.g>> }

(***************************************************************************)
(* State                                                                   *)
(***************************************************************************)
VARIABLES
    \* the document the input text was built from, and what is under way
    lines, phase, first,
    \* CE_INI_Read: its argument, its locals, the callback's log, its result
    text, str, section, name, value, calls, rpc,
    \* where the cursor of the sub-parser that returned last stood, the
    \* sub-parser whose failure ended the read, and where the value of the
    \* entry just parsed started (0 when the last step parsed no value)
    cursor, failed, vstart,
    \* CE_INI_Write: its arguments
    options, option_count, max_length, buffer,
    \* CE_INI_Write: its locals, its position and its result
    write_section, w_section, w_name, w_value, written,
    bytes_written, num_written, i, wpc,
    \* the accessor's call count, the lines emitted and the header they follow,
    \* and the passes of the do-while loop begun
    fetches, emitted, header, passes

rvars == <<lines, phase, first, text, str, section, name, value, calls, rpc,
           cursor, failed, vstart>>
wvars == <<options, option_count, max_length, buffer, write_section, w_section,
           w_name, w_value, written, bytes_written, num_written, i, wpc,
           fetches, emitted, header, passes>>
vars == <<rvars, wvars>>

(***************************************************************************)
(* INI parsing: CE_INI_Read, one action per iteration of its loop          *)
(***************************************************************************)

\* a reader that skips the failing line and goes on
ReturnErrorSkipLine(txt, at) == [rpc |-> "run", str |-> nextLine(txt, at)]

\* return CE_INI_ERROR : the result and the str the caller is left with
ReturnError(txt, at) == [rpc |-> "error", str |-> NULL]

\* (*callback)(section, name, value, userdata)
Callback(log, sec, nam, val) == Append(log, <<sec, nam, val>>)

\* while(str != NULL && *str) is false: return CE_INI_OK
ReadReturn ==
    /\ rpc = "run"
    /\ At(text, str) = NUL
    /\ rpc' = "ok"
    /\ vstart' = 0
    /\ UNCHANGED <<lines, phase, first, text, str, section, name, value, calls,
                   cursor, failed>>
    /\ UNCHANGED wvars

\* if(*str == '[') str = parseSection(str, section)
ReadSection ==
    /\ rpc = "run"
    /\ At(text, str) # NUL
    /\ LET s == skipToFirstReadableChar(text, str)
           r == parseSection(text, s)
       IN  /\ At(text, s) = LBRACKET
           /\ section' = r.out
           /\ cursor' = r.at
           /\ IF r.str = NULL
              THEN /\ rpc' = ReturnError(text, r.at).rpc
                   /\ str' = ReturnError(text, r.at).str
                   /\ failed' = "parseSection"
              ELSE /\ rpc' = rpc
                   /\ str' = r.str
                   /\ UNCHANGED failed
    /\ vstart' = 0
    /\ UNCHANGED <<lines, phase, first, text, name, value, calls>>
    /\ UNCHANGED wvars

\* else if(*str == ';') str = nextLine(str)
ReadComment ==
    /\ rpc = "run"
    /\ At(text, str) # NUL
    /\ LET s == skipToFirstReadableChar(text, str)
       IN  /\ At(text, s) = SEMI
           /\ str' = nextLine(text, s)
           /\ cursor' = nextLine(text, s)
    /\ vstart' = 0
    /\ UNCHANGED <<lines, phase, first, text, section, name, value, calls, rpc, failed>>
    /\ UNCHANGED wvars

\* else if(*str) parseName, skipEquality, parseValue, callback
ReadEntry ==
    /\ rpc = "run"
    /\ At(text, str) # NUL
    /\ LET s == skipToFirstReadableChar(text, str)
           n == parseName(text, s)
           e == skipEquality(text, n.str)
           v == parseValue(text, e.str)
       IN  /\ At(text, s) \notin {LBRACKET, SEMI, NUL}
           /\ name' = n.out
           /\ IF n.str = NULL
              THEN /\ rpc' = ReturnError(text, n.at).rpc
                   /\ str' = ReturnError(text, n.at).str
                   /\ cursor' = n.at
                   /\ failed' = "parseName"
                   /\ vstart' = 0
                   /\ UNCHANGED <<value, calls>>
              ELSE IF e.str = NULL
              THEN /\ rpc' = ReturnError(text, e.at).rpc
                   /\ str' = ReturnError(text, e.at).str
                   /\ cursor' = e.at
                   /\ failed' = "skipEquality"
                   /\ vstart' = 0
                   /\ UNCHANGED <<value, calls>>
              ELSE IF v.str = NULL
              THEN /\ rpc' = ReturnError(text, v.at).rpc
                   /\ str' = ReturnError(text, v.at).str
                   /\ cursor' = v.at
                   /\ failed' = "parseValue"
                   /\ vstart' = e.str
                   /\ value' = v.out
                   /\ UNCHANGED calls
              ELSE /\ rpc' = rpc
                   /\ str' = v.str
                   /\ cursor' = v.at
                   /\ vstart' = e.str
                   /\ value' = v.out
                   /\ calls' = Callback(calls, section, n.out, v.out)
                   /\ UNCHANGED failed
    /\ UNCHANGED <<lines, phase, first, text, section>>
    /\ UNCHANGED wvars

\* none of the branches: only blanks were left before the end of the text
ReadBlank ==
    /\ rpc = "run"
    /\ At(text, str) # NUL
    /\ LET s == skipToFirstReadableChar(text, str)
       IN  /\ At(text, s) = NUL
           /\ str' = s
           /\ cursor' = s
    /\ vstart' = 0
    /\ UNCHANGED <<lines, phase, first, text, section, name, value, calls, rpc, failed>>
    /\ UNCHANGED wvars

(***************************************************************************)
(* INI writing                                                             *)
(***************************************************************************)
CE_INI_OK == 0
CE_INI_ERROR == 1

\* char written[CE_INI_MAX_WRITE_OPTIONS / 8] = {0}; a byte is its bit pattern
NoneWritten == [b \in 0..(CE_INI_MAX_WRITE_OPTIONS \div 8 - 1) |-> 0]

Pow2(k) == IF k = 0 THEN 1 ELSE IF k = 1 THEN 2 ELSE IF k = 2 THEN 4
           ELSE IF k = 3 THEN 8 ELSE IF k = 4 THEN 16 ELSE IF k = 5 THEN 32
           ELSE IF k = 6 THEN 64 ELSE 128

\* a bit set that tells the bytes apart but not the bits
setWrittenWholeByte(index, w) ==
    IF index \div 8 \in DOMAIN w THEN [w EXCEPT ![index \div 8] = 255] ELSE w

getWritten(index, w) ==
    IF index \div 8 \in DOMAIN w
    THEN (w[index \div 8] \div Pow2(index % 8)) % 2
    ELSE 0

setWritten(index, w) ==
    IF index \div 8 \in DOMAIN w /\ getWritten(index, w) = 0
    THEN [w EXCEPT ![index \div 8] = @ + Pow2(index % 8)]
    ELSE w

\* a byte nothing has been stored to yet
Indeterminate == 0 - 1

\* buffer[offset] = c.  The variable buffer holds the bytes from the caller's
\* pointer up to the highest offset stored to so far (offset k at index
\* k + 1); offsets >= max_length lie beyond the caller's buffer.
Store(buf, offset, c) ==
    IF offset + 1 <= Len(buf) THEN [buf EXCEPT ![offset + 1] = c]
    ELSE buf \o [k \in 1..(offset - Len(buf)) |-> Indeterminate] \o <<c>>

\* the offset of the terminator bufferPrint stores after the characters
TerminatorOffset(index) == index + 1

\* one iteration of while(*str) on  index : the local index,
\* s : what is left of str,  rc : "loop", "exit" or "fail" as above
PrintStep(length, st) ==
    IF st.rc # "loop" THEN st
    ELSE IF st.s # <<>>
         THEN IF st.index < length - 1
              THEN [buffer |-> Store(st.buffer, st.index, Head(st.s)),
                    index |-> st.index + 1, s |-> Tail(st.s), rc |-> "loop"]
              ELSE [st EXCEPT !.rc = "fail"]
         ELSE [st EXCEPT !.rc = "exit"]

RECURSIVE PrintRun(_, _, _)
PrintRun(length, st, n) ==
    IF n = 0 THEN st
    ELSE IF n = 1 THEN PrintStep(length, st)
    ELSE LET half == PrintRun(length, st, n \div 2)
         IN  IF half.rc # "loop" THEN half
             ELSE PrintRun(length, half, n - n \div 2)

bufferPrint(buf, length, bw, s) ==
    LET st == PrintRun(length, [buffer |-> buf, index |-> bw, s |-> s, rc |-> "loop"],
                       Len(s) + 1)
    IN  IF st.rc = "fail"
        THEN [rc |-> CE_INI_ERROR, buffer |-> st.buffer, bytes_written |-> bw]
        ELSE [rc |-> CE_INI_OK,
              buffer |-> Store(st.buffer, TerminatorOffset(st.index), NUL),
              bytes_written |-> st.index]

\* bufferPrint(a) == CE_INI_ERROR || bufferPrint(b) == CE_INI_ERROR || ...
RECURSIVE PrintAll(_, _, _, _)
PrintAll(buf, length, bw, ss) ==
    IF ss = <<>>
    THEN [rc |-> CE_INI_OK, buffer |-> buf, bytes_written |-> bw]
    ELSE LET r == bufferPrint(buf, length, bw, Head(ss))
         IN  IF r.rc = CE_INI_ERROR THEN r
             ELSE PrintAll(r.buffer, length, r.bytes_written, Tail(ss))

\* (*callback)(index, section, name, value, userdata): a pure function of the
\* index; beyond the end of options the accessor repeats them
Fetch(index) == options[(index % Len(options)) + 1]

\* a capacity check that is off by one
TooManyOptionsOffByOne(n) == n > CE_INI_MAX_WRITE_OPTIONS + 1

\* if(option_count > CE_INI_MAX_WRITE_OPTIONS)
TooManyOptions(n) == n > CE_INI_MAX_WRITE_OPTIONS

\* a loop test that gives up after a pass that wrote a single entry
AnotherPassIfSeveral(n) == n > 1

\* while(num_written > 0)
AnotherPass(n) == n > 0

WriteCheck ==
    /\ wpc = "start"
    /\ wpc' = IF TooManyOptions(option_count) THEN "error" ELSE "find"
    /\ UNCHANGED <<passes, options, option_count, max_length, buffer, write_section,
                   w_section, w_name, w_value, written, bytes_written,
                   num_written, i, fetches, emitted, header>>
    /\ UNCHANGED rvars

\* a search that takes the last unwritten index instead of the first
RECURSIVE LastUnwritten(_, _, _)
LastUnwritten(j, n, w) ==
    IF j < n
    THEN IF getWritten(n - 1, w) = 0 THEN n - 1 ELSE LastUnwritten(j, n - 1, w)
    ELSE n

\* the first unwritten index, as the first for loop finds it
RECURSIVE FirstUnwritten(_, _, _)
FirstUnwritten(j, n, w) ==
    IF j < n
    THEN IF getWritten(j, w) = 0 THEN j ELSE FirstUnwritten(j + 1, n, w)
    ELSE n

\* num_written = 0; section_found = 0; for(...) the first unwritten index
WriteFind ==
    /\ wpc = "find"
    /\ num_written' = 0
    /\ i' = 0
    /\ passes' = passes + 1
    /\ LET f == FirstUnwritten(0, option_count, written)
       IN  IF f < option_count
           THEN /\ write_section' = Fetch(f)[1]
                /\ w_name' = Fetch(f)[2]
                /\ w_value' = Fetch(f)[3]
                /\ fetches' = fetches + 1
                /\ wpc' = "header"
           ELSE /\ wpc' = "entries"
                /\ UNCHANGED <<write_section, w_name, w_value, fetches>>
    /\ UNCHANGED <<options, option_count, max_length, buffer, w_section,
                   written, bytes_written, emitted, header>>
    /\ UNCHANGED rvars

\* if(section_found) "[", write_section, "]\n"
WriteHeader ==
    /\ wpc = "header"
    /\ LET r == PrintAll(buffer, max_length, bytes_written,
                         << <<LBRACKET>>, write_section, <<RBRACKET, NL>> >>)
       IN  /\ buffer' = r.buffer
           /\ bytes_written' = r.bytes_written
           /\ IF r.rc = CE_INI_ERROR
              THEN wpc' = "error" /\ UNCHANGED header
              ELSE wpc' = "entries" /\ header' = write_section
    /\ UNCHANGED <<passes, options, option_count, max_length, write_section, w_section,
                   w_name, w_value, written, num_written, i, fetches, emitted>>
    /\ UNCHANGED rvars

\* if(getWritten(i, written) == 1) continue
WriteSkipWritten ==
    /\ wpc = "entries"
    /\ i < option_count
    /\ getWritten(i, written) = 1
    /\ i' = i + 1
    /\ UNCHANGED <<passes, options, option_count, max_length, buffer, write_section,
                   w_section, w_name, w_value, written, bytes_written,
                   num_written, wpc, fetches, emitted, header>>
    /\ UNCHANGED rvars

\* if(strcmp(section, write_section) != 0) continue
WriteSkipOther ==
    /\ wpc = "entries"
    /\ i < option_count
    /\ getWritten(i, written) # 1
    /\ Fetch(i)[1] # write_section
    /\ w_section' = Fetch(i)[1]
    /\ w_name' = Fetch(i)[2]
    /\ w_value' = Fetch(i)[3]
    /\ fetches' = fetches + 1
    /\ i' = i + 1
    /\ UNCHANGED <<passes, options, option_count, max_length, buffer, write_section,
                   written, bytes_written, num_written, wpc, emitted, header>>
    /\ UNCHANGED rvars

\* name, "=", value, "\n"; setWritten(i, written); num_written++
WriteEntry ==
    /\ wpc = "entries"
    /\ i < option_count
    /\ getWritten(i, written) # 1
    /\ Fetch(i)[1] = write_section
    /\ w_section' = Fetch(i)[1]
    /\ w_name' = Fetch(i)[2]
    /\ w_value' = Fetch(i)[3]
    /\ fetches' = fetches + 1
    /\ LET r == PrintAll(buffer, max_length, bytes_written,
                         << Fetch(i)[2], <<EQUALS>>, Fetch(i)[3], <<NL>> >>)
       IN  /\ buffer' = r.buffer
           /\ bytes_written' = r.bytes_written
           /\ IF r.rc = CE_INI_ERROR
              THEN /\ wpc' = "error"
                   /\ UNCHANGED <<written, num_written, i, emitted>>
              ELSE /\ written' = setWritten(i, written)
                   /\ num_written' = num_written + 1
                   /\ i' = i + 1
                   /\ emitted' = Append(emitted, <<i, header>>)
                   /\ UNCHANGED wpc
    /\ UNCHANGED <<passes, options, option_count, max_length, write_section, header>>
    /\ UNCHANGED rvars

\* "\n", then while(num_written > 0), then return CE_INI_OK
WriteBlank ==
    /\ wpc = "entries"
    /\ ~(i < option_count)
    /\ LET r == bufferPrint(buffer, max_length, bytes_written, <<NL>>)
       IN  /\ buffer' = r.buffer
           /\ bytes_written' = r.bytes_written
           /\ wpc' = IF r.rc = CE_INI_ERROR THEN "error"
                     ELSE IF AnotherPass(num_written) THEN "find" ELSE "ok"
    /\ UNCHANGED <<passes, options, option_count, max_length, write_section, w_section,
                   w_name, w_value, written, num_written, i, fetches, emitted,
                   header>>
    /\ UNCHANGED rvars

(***************************************************************************)
(* Specifications                                                          *)
(*                                                                         *)
(* Spec      : a document is read; when the read succeeds the triples it   *)
(*             delivered are written, and the text written is read again.  *)
(* SpecWrite : CE_INI_Write on its own, over options, counts and           *)
(*             capacities drawn from bounded sets.                         *)
(***************************************************************************)
MaxOptions == 3
MaxCapacity == 28
BigCapacity == 1100

SecA == <<Chr.a>>
SecB == <<Chr.b>>

WriteOptions ==
    { <<SecA, K, V>>, <<SecB, <<Chr.q>>, <<>>>>, <<<<>>, K, <<Chr.w>>>> }

OptionSeqs == UNION { [1..n -> WriteOptions] : n \in 0..MaxOptions }

ReadIdle ==
    /\ lines = <<>> /\ first = <<>> /\ text = <<>> /\ str = 1 /\ cursor = 1
    /\ section = <<>> /\ name = <<>> /\ value = <<>> /\ calls = <<>>
    /\ rpc = "idle" /\ failed = "" /\ vstart = 0

\* the locals of CE_INI_Write before the call
WriteLocals ==
    /\ write_section = <<>> /\ w_section = <<>> /\ w_name = <<>> /\ w_value = <<>>
    /\ written = NoneWritten /\ bytes_written = 0 /\ num_written = 0 /\ i = 0
    /\ fetches = 0 /\ emitted = <<>> /\ header = <<>> /\ buffer = <<>>
    /\ passes = 0

Init ==
    /\ \E pre \in CoreSeqs, end \in Endings : lines = pre \o end
    /\ text = TextOf(lines)
    /\ section \in Garbage
    /\ str = 1 /\ cursor = 1
    /\ name = <<>> /\ value = <<>> /\ calls = <<>> /\ first = <<>>
    /\ rpc = "run" /\ failed = "" /\ vstart = 0
    /\ phase = "read"
    /\ options = <<>> /\ option_count = 0 /\ max_length = 0
    /\ wpc = "idle"
    /\ WriteLocals

InitWrite ==
    /\ ReadIdle
    /\ phase = "write"
    /\ options \in OptionSeqs
    /\ option_count \in {Len(options)} \cup
          (IF Len(options) \in 1..2
           THEN {CE_INI_MAX_WRITE_OPTIONS, CE_INI_MAX_WRITE_OPTIONS + 1}
           ELSE {})
    /\ max_length \in 0..MaxCapacity \cup {BigCapacity}
    /\ wpc = "start"
    /\ WriteLocals

\* the triples the read delivered are handed to CE_INI_Write
BeginWrite ==
    /\ phase = "read"
    /\ rpc = "ok"
    /\ phase' = "write"
    /\ options' = calls
    /\ option_count' = Len(calls)
    /\ max_length' = BigCapacity
    /\ wpc' = "start"
    /\ UNCHANGED <<buffer, write_section, w_section, w_name, w_value, written,
                   bytes_written, num_written, i, fetches, emitted, header,
                   passes>>
    /\ UNCHANGED <<lines, first, text, str, section, name, value, calls, rpc,
                   cursor, failed, vstart>>

\* the string a reader of the buffer finds: the bytes before the first NUL,
\* a byte never stored to being any character or NUL
Holes(buf) == { k \in 1..Len(buf) : buf[k] = Indeterminate }

UpToNul(r) ==
    LET n == CHOOSE n \in 1..Len(r) :
                 r[n] = NUL /\ \A m \in 1..(n - 1) : r[m] # NUL
    IN  SubSeq(r, 1, n - 1)

CStrings(buf) ==
    { UpToNul([k \in 1..Len(buf) |-> IF k \in Holes(buf) THEN h[k] ELSE buf[k]]) :
        h \in [Holes(buf) -> {NUL, Chr.x}] }

\* the text CE_INI_Write produced is read again
BeginReparse ==
    /\ phase = "write"
    /\ wpc = "ok"
    /\ phase' = "reread"
    /\ first' = calls
    /\ calls' = <<>>
    /\ text' \in CStrings(buffer)
    /\ str' = 1 /\ cursor' = 1
    /\ section' \in Garbage
    /\ name' = <<>> /\ value' = <<>>
    /\ rpc' = "run" /\ failed' = "" /\ vstart' = 0
    /\ UNCHANGED lines
    /\ UNCHANGED wvars

NextRead == ReadReturn \/ ReadSection \/ ReadComment \/ ReadEntry \/ ReadBlank

NextWrite ==
    \/ WriteCheck \/ WriteFind \/ WriteHeader
    \/ WriteSkipWritten \/ WriteSkipOther \/ WriteEntry \/ WriteBlank

Next == NextRead \/ BeginWrite \/ NextWrite \/ BeginReparse

Spec == Init /\ [][Next]_vars

SpecWrite == InitWrite /\ [][NextWrite]_vars

(***************************************************************************)
(* SpecSection : parseSection on its own, over short texts and over texts  *)
(*               whose body is about the bound long.                       *)
(***************************************************************************)
MaxText == 4

SectionAlphabet ==
    {LBRACKET, RBRACKET, Chr.s, Chr.two, MINUS, UNDERSCORE, SP, Chr.bang, NL}

SectionInputs ==
    UNION { [1..n -> SectionAlphabet] : n \in 0..MaxText }
    \cup { <<LBRACKET>> \o Rep(Chr.s, n) \o rest :
             n \in (CE_INI_MAX_SECTION_LENGTH - 2)..(CE_INI_MAX_SECTION_LENGTH + 1),
             rest \in {<<>>, <<RBRACKET>>, <<RBRACKET, Chr.s>>, <<Chr.bang, RBRACKET>>} }

InitSection ==
    /\ text \in SectionInputs
    /\ lines = <<>> /\ first = <<>> /\ str = 1 /\ cursor = 1
    /\ section \in Garbage
    /\ name = <<>> /\ value = <<>> /\ calls = <<>>
    /\ rpc = "run" /\ failed = "" /\ vstart = 0
    /\ phase = "section"
    /\ options = <<>> /\ option_count = 0 /\ max_length = 0
    /\ wpc = "idle"
    /\ WriteLocals

\* str = parseSection(str, section)
CallParseSection ==
    /\ phase = "section"
    /\ rpc = "run"
    /\ LET r == parseSection(text, str)
       IN  /\ section' = r.out
           /\ str' = r.str
           /\ cursor' = r.at
           /\ rpc' = IF r.str = NULL THEN "error" ELSE "ok"
           /\ failed' = IF r.str = NULL THEN "parseSection" ELSE failed
    /\ UNCHANGED <<lines, phase, first, text, name, value, calls, vstart>>
    /\ UNCHANGED wvars

SpecSection == InitSection /\ [][CallParseSection]_vars

(***************************************************************************)
(* What a document says, read off its lines                                *)
(***************************************************************************)

\* the first line with a flaw, 0 when there is none
FirstFlaw(ls) ==
    IF \E k \in 1..Len(ls) : ls[k].flaw # "none"
    THEN CHOOSE k \in 1..Len(ls) :
             ls[k].flaw # "none" /\ \A m \in 1..(k - 1) : ls[m].flaw = "none"
    ELSE 0

\* the entries of ls in order, each with the body of the nearest preceding
\* header (cur when there is none) and whether a header precedes it
RECURSIVE Entries(_, _, _)
Entries(ls, cur, seen) ==
    IF ls = <<>> THEN <<>>
    ELSE LET l == Head(ls)
             sec == IF l.setsec THEN l.sec ELSE cur
             hdr == seen \/ l.setsec
         IN  (IF l.entry THEN << <<sec, l.key, l.val, hdr>> >> ELSE <<>>)
                 \o Entries(Tail(ls), sec, hdr)

\* the entries before line j
EntriesBefore(ls, j) == Entries(SubSeq(ls, 1, j - 1), <<>>, FALSE)

\* the entries up to the flaw of line j: an "after" line holds one itself
EntriesBeforeFlaw(ls, j) ==
    Entries(SubSeq(ls, 1, IF ls[j].flaw = "after" THEN j ELSE j - 1), <<>>, FALSE)

\* the position of the first character of line j
StartOf(ls, j) == Len(TextOf(SubSeq(ls, 1, j - 1))) + 1

\* cs, the callback's log, is es: keys and values, and the section too where
\* a header precedes the entry (everywhere when strict)
Delivered(cs, es, strict) ==
    /\ Len(cs) = Len(es)
    /\ \A n \in 1..Len(es) :
          /\ cs[n][2] = es[n][2]
          /\ cs[n][3] = es[n][3]
          /\ (es[n][4] \/ strict) => cs[n][1] = es[n][1]

(***************************************************************************)
(* Claims                                                                  *)
(***************************************************************************)

\* C1: on every text on which CE_INI_Read returns OK the callback is invoked
\* exactly once per entry, in document order, with the body of the nearest
\* preceding header as section, and with the empty string when no header
\* precedes the entry.
C1_OncePerEntryInOrder ==
    (phase = "read" /\ rpc = "ok" /\ FirstFlaw(lines) = 0)
        => Delivered(calls, Entries(lines, <<>>, FALSE), TRUE)

\* C2 as stated: when a sub-parse fails the read returns the error result and
\* the callback has been invoked for no entry of the failing line nor of a
\* later line.
C2_NothingFromFailingLine ==
    (phase = "read" /\ rpc = "error")
        => Delivered(calls, EntriesBefore(lines, FirstFlaw(lines)), FALSE)

\* C2 amended: when a sub-parse fails the read returns the error result at
\* once: it never returns OK, the callback has been invoked exactly for the
\* entries before the flaw (an entry that precedes the flaw on the same line
\* included), and the cursor has not gone past the failing line.
C2_ErrorAborts ==
    LET j == FirstFlaw(lines)
    IN  (phase = "read" /\ j # 0 /\ lines[j].flaw # "eof")
            => /\ rpc # "ok"
               /\ rpc = "run" => Len(calls) <= Len(EntriesBeforeFlaw(lines, j))
               /\ rpc = "error" =>
                     /\ Delivered(calls, EntriesBeforeFlaw(lines, j), FALSE)
                     /\ str = NULL
                     /\ failed # ""
                     /\ j < Len(lines) => cursor <= StartOf(lines, j + 1)

\* a read that failed after a callback and before a later entry line
C2_Witness ==
    /\ phase = "read" /\ rpc = "error"
    /\ Len(calls) > 0
    /\ FirstFlaw(lines) < Len(lines)
    /\ lines[Len(lines)].entry

(***************************************************************************)
(* What CE_INI_Write is to produce, read off the options                   *)
(***************************************************************************)
SectionOf(index) == Fetch(index)[1]

\* no smaller index has the section of index
OpensGroup(index) == \A j \in 0..(index - 1) : SectionOf(j) # SectionOf(index)

\* the key=value lines of the indices in lo..hi-1 that have section sec
RECURSIVE LinesOf(_, _, _)
LinesOf(sec, lo, hi) ==
    IF hi <= lo THEN <<>>
    ELSE IF hi = lo + 1
    THEN IF SectionOf(lo) = sec
         THEN Fetch(lo)[2] \o <<EQUALS>> \o Fetch(lo)[3] \o <<NL>>
         ELSE <<>>
    ELSE LinesOf(sec, lo, (lo + hi) \div 2) \o LinesOf(sec, (lo + hi) \div 2, hi)

\* the groups opened by the indices in lo..hi-1 of n options: header, lines,
\* blank line
RECURSIVE GroupsOf(_, _, _)
GroupsOf(lo, hi, n) ==
    IF hi <= lo THEN <<>>
    ELSE IF hi = lo + 1
    THEN IF OpensGroup(lo)
         THEN <<LBRACKET>> \o SectionOf(lo) \o <<RBRACKET, NL>>
                 \o LinesOf(SectionOf(lo), lo, n) \o <<NL>>
         ELSE <<>>
    ELSE GroupsOf(lo, (lo + hi) \div 2, n) \o GroupsOf((lo + hi) \div 2, hi, n)

\* the characters emitted so far
Written == SubSeq(buffer, 1, bytes_written)

\* C3: for option_count in 0..256 and a buffer large enough (room for the
\* text, its terminator and the byte the terminator is displaced by)
\* CE_INI_Write returns OK, and when it returns OK every index below
\* option_count has been emitted exactly once, under the header of its own
\* section.
C3_EveryIndexOnce ==
    /\ (wpc = "error" /\ ~(option_count > 256))
          => max_length < Len(GroupsOf(0, option_count, option_count)) + 3
    /\ wpc = "ok" =>
          /\ Len(emitted) = option_count
          /\ \A index \in 0..(option_count - 1) :
                \E p \in 1..Len(emitted) :
                   /\ emitted[p] = <<index, SectionOf(index)>>
                   /\ \A r \in 1..Len(emitted) : emitted[r][1] = index => r = p

\* 256 options in two sections, all written
C3_Witness ==
    /\ wpc = "ok"
    /\ option_count = 256
    /\ Len(emitted) = 256
    /\ emitted[1][2] # emitted[256][2]

\* C4: the text a successful CE_INI_Write leaves is, for each distinct section
\* in the order of its smallest index, one header followed at once by the
\* key=value lines of the indices of that section in increasing order and a
\* blank line (and, after the last group, the newline of the pass that found
\* nothing left).
C4_GroupedInOrder ==
    wpc = "ok" => Written = GroupsOf(0, option_count, option_count) \o <<NL>>

\* the options (A, B, A) written: two groups
C4_Witness ==
    /\ wpc = "ok"
    /\ option_count = 3
    /\ SectionOf(0) = SectionOf(2)
    /\ SectionOf(0) # SectionOf(1)

\* the multiset of the elements of a sequence
BagOf(sq) ==
    [x \in {sq[n] : n \in 1..Len(sq)} |-> Cardinality({n \in 1..Len(sq) : sq[n] = x})]

\* C5: for every document the read accepts (and that holds an entry), writing
\* the triples it delivered and reading the text written succeeds and
\* delivers the same multiset of triples.
C5_RoundTrip ==
    (phase = "reread" /\ rpc # "run" /\ first # <<>>)
        => rpc = "ok" /\ BagOf(calls) = BagOf(first)

\* C6: an emit step succeeds only when its characters and its terminator fit
\* within the declared capacity: every byte stored, the terminator included,
\* lies at an offset below max_length; and a failing step stores nothing
\* at or after the offset the terminator was at.
C6_EmitWithinCapacity ==
    /\ bytes_written > 0 => bytes_written + 1 <= max_length
    /\ Len(buffer) <= max_length

\* C7: with option_count above 256 CE_INI_Write returns the error result
\* before it calls the accessor or stores a byte.
C7_TooManyRejectedUpFront ==
    option_count > 256
        => /\ wpc \in {"start", "error"}
           /\ fetches = 0
           /\ buffer = <<>>
           /\ bytes_written = 0
           /\ emitted = <<>>

\* 257 options: rejected
C7_Witness == wpc = "error" /\ option_count = 257 /\ phase = "write" /\ rpc = "idle"

\* C8: a section body or key of 31 characters and a value of 63 characters
\* (an unquoted run of 63, or 63 after unescaping) parse and are delivered in
\* full; a section or key of 32 characters, a quoted value of 64 or an
\* unquoted run of 64 makes the read return the error result, and no triple
\* is ever delivered with a field beyond its bound or cut short.
C8_BoundsWithoutTruncation ==
    LET j == FirstFlaw(lines)
    IN  phase = "read" =>
           /\ \A n \in 1..Len(calls) :
                 /\ Len(calls[n][1]) <= CE_INI_MAX_SECTION_LENGTH - 1
                 /\ Len(calls[n][2]) <= CE_INI_MAX_NAME_LENGTH - 1
                 /\ Len(calls[n][3]) <= CE_INI_MAX_VALUE_LENGTH - 1
           /\ j = 0 =>
                 /\ rpc # "error"
                 /\ rpc = "ok" => Delivered(calls, Entries(lines, <<>>, FALSE), FALSE)
           /\ (j # 0 /\ lines[j].flaw \in {"over", "trail"}) =>
                 /\ rpc # "ok"
                 /\ Len(calls) <= Len(EntriesBefore(lines, j))
                 /\ rpc = "error" => Delivered(calls, EntriesBefore(lines, j), FALSE)

\* a quoted value of 63 characters after unescaping, delivered, and the line
\* after it too
C8_Witness ==
    /\ phase = "read" /\ rpc = "ok"
    /\ Len(calls) = 2
    /\ Len(calls[1][3]) = 63
    /\ calls[1][3][1] = TAB
    /\ calls[1][3][63] = SP

\* C9: a quoted value with no closing quote before the end of the line or
\* the end of the input makes the read return the error result, with no
\* callback for that entry.
C9_UnterminatedQuoteFails ==
    LET j == FirstFlaw(lines)
    IN  (phase = "read" /\ rpc # "run" /\ j # 0 /\ lines[j].flaw \in {"eol", "eof"})
            => /\ rpc = "error"
               /\ Delivered(calls, EntriesBefore(lines, j), FALSE)

\* where the run that starts at p ends: the first newline, carriage return,
\* ';' or end of input
RunEnd(p) ==
    CHOOSE e \in p..(Len(text) + 1) :
        /\ At(text, e) \in {NL, CR, SEMI, NUL}
        /\ \A m \in p..(e - 1) : At(text, m) \notin {NL, CR, SEMI, NUL}

\* C10: the unquoted value last parsed is the run from the value start up to
\* the first newline, carriage return, ';' or end of input, without its
\* trailing spaces, and the parse succeeded exactly when the run holds only
\* printable characters and tabs and is at most 63 characters long before
\* trimming.
C10_UnquotedValue ==
    (vstart # 0 /\ At(text, vstart) # QUOTE) =>
        LET run == SubSeq(text, vstart, RunEnd(vstart) - 1)
            clean == \A n \in 1..Len(run) : isprint(run[n]) \/ run[n] = TAB
            parsed == ~(rpc = "error" /\ failed = "parseValue")
        IN  /\ parsed <=> (clean /\ Len(run) <= CE_INI_MAX_VALUE_LENGTH - 1)
            /\ parsed =>
                  /\ Len(value) <= Len(run)
                  /\ value = SubSeq(run, 1, Len(value))
                  /\ Len(value) > 0 => value[Len(value)] # SP
                  /\ \A n \in (Len(value) + 1)..Len(run) : run[n] = SP
                  /\ cursor = RunEnd(vstart)
            /\ ~parsed => cursor \in vstart..RunEnd(vstart)

\* "x y" delivered from the run "x y  "
C10_Witness ==
    /\ phase = "read" /\ rpc = "run"
    /\ vstart # 0 /\ At(text, vstart) # QUOTE
    /\ RunEnd(vstart) - vstart = Len(value) + 2
    /\ \E n \in 1..Len(value) : value[n] = SP
    /\ calls # <<>> /\ calls[Len(calls)][3] = value

\* the line of the document that holds position p of its text
LineAt(p) ==
    CHOOSE j \in 1..Len(lines) : StartOf(lines, j) <= p /\ p < StartOf(lines, j + 1)

\* C11: a quoted value is delivered as the text between the quotes, untrimmed,
\* with \" \\ \t \n decoded to quote, backslash, tab and newline; a backslash
\* followed by any other character, or by the end of the input, makes the
\* read return the error result with nothing delivered for that entry.
C11_QuotedValue ==
    (phase = "read" /\ vstart # 0 /\ At(text, vstart) = QUOTE) =>
        LET j == LineAt(vstart)
        IN  /\ lines[j].flaw = "none" =>
                  /\ rpc = "run"
                  /\ value = lines[j].val
                  /\ calls # <<>> /\ calls[Len(calls)][3] = lines[j].val
                  /\ cursor > vstart + 1
                  /\ At(text, cursor - 1) = QUOTE
            /\ lines[j].flaw = "escape" =>
                  /\ rpc = "error"
                  /\ failed = "parseValue"
                  /\ At(text, cursor - 2) = BACKSLASH
                  /\ At(text, cursor - 1) \notin {QUOTE, BACKSLASH, LOWER_T, LOWER_N}
                  /\ Delivered(calls, EntriesBefore(lines, j), FALSE)

\* the four escapes decoded and delivered
C11_Witness ==
    /\ phase = "read" /\ rpc = "run"
    /\ vstart # 0 /\ At(text, vstart) = QUOTE
    /\ value = <<QUOTE, BACKSLASH, TAB, NL>>
    /\ calls # <<>> /\ calls[Len(calls)][3] = value

\* C12: an entry whose key is not followed, after blanks of the same line,
\* by '=' makes the read return the error result, with no callback for it;
\* so too when the line or the input ends after the key, and when the '='
\* stands on the next line.
C12_MissingEquals ==
    LET j == FirstFlaw(lines)
    IN  (phase = "read" /\ j # 0 /\ lines[j].flaw = "noeq") =>
            /\ rpc # "ok"
            /\ Len(calls) <= Len(EntriesBefore(lines, j))
            /\ rpc = "error" =>
                  /\ failed \in {"parseName", "skipEquality"}
                  /\ At(text, cursor) # EQUALS
                  /\ str = NULL
                  /\ Delivered(calls, EntriesBefore(lines, j), FALSE)

\* "k <NL>=v" after a delivered entry: the read stopped at the newline
C12_Witness ==
    /\ phase = "read" /\ rpc = "error"
    /\ failed = "skipEquality"
    /\ lines[FirstFlaw(lines)].flaw = "noeq"
    /\ At(text, cursor) = NL
    /\ At(text, cursor + 1) = EQUALS
    /\ calls # <<>>

\* the first readable character at or after p: the first that is neither a
\* control character nor a space, or the end of the input
FirstReadable(p) ==
    CHOOSE e \in p..(Len(text) + 1) :
        /\ At(text, e) = NUL \/ ~(iscntrl(At(text, e)) \/ At(text, e) = SP)
        /\ \A m \in p..(e - 1) : iscntrl(At(text, m)) \/ At(text, m) = SP

\* q is where the line after the one holding p starts: past the newlines that
\* end the line of p, or the end of the input
NextLineStart(p, q) ==
    \E e \in p..q :
        /\ \A m \in p..(e - 1) : At(text, m) \notin {NL, NUL}
        /\ \A m \in e..(q - 1) : At(text, m) = NL
        /\ At(text, q) # NL
        /\ q <= Len(text) + 1

\* the lines of ls that are headers or entries
WithoutOthers(ls) == SelectSeq(ls, LAMBDA l : l.setsec \/ l.entry)

\* C13: a step of the read that finds ';' or only blanks before the end of the
\* input invokes no callback and leaves the section as it is; after a comment
\* the read resumes at the start of the next non-empty line; and a well-formed
\* document delivers what the same document without its comment and blank
\* lines delivers.
C13_CommentsAndBlanksSkipped ==
    /\ [][(rpc = "run" /\ At(text, FirstReadable(str)) \in {SEMI, NUL})
             => /\ calls' = calls
                /\ section' = section
                /\ At(text, FirstReadable(str)) = SEMI
                      => rpc' = "run" /\ NextLineStart(FirstReadable(str), str')
                /\ At(text, FirstReadable(str)) = NUL
                      => str' = Len(text) + 1 \/ rpc' = "ok"]_vars
    /\ [](  (phase = "read" /\ rpc = "ok" /\ FirstFlaw(lines) = 0)
              => Delivered(calls, Entries(WithoutOthers(lines), <<>>, FALSE), FALSE))

\* [s], a comment that looks like a header and an entry, then an entry
\* delivered under s
C13_Witness ==
    /\ phase = "read" /\ rpc = "ok"
    /\ Len(lines) = 3
    /\ lines[1].setsec
    /\ lines[2].t[1] = SEMI
    /\ lines[3].entry
    /\ Len(calls) = 1
    /\ calls[1][1] = lines[1].sec

\* the distinct sections of the options
Sections == { SectionOf(index) : index \in 0..(option_count - 1) }

\* every index below option_count has been emitted
AllEmitted ==
    { emitted[p][1] : p \in 1..Len(emitted) } = 0..(option_count - 1)

\* what CE_INI_Write has left to do, as a number: the indices unwritten when
\* the pass under way began, then the statements left in the pass
Variant ==
    IF wpc \in {"ok", "error"} THEN 0
    ELSE LET unwritten == option_count - Len(emitted)
             atstart == unwritten + (IF wpc = "entries" THEN num_written ELSE 0)
             left == IF wpc = "start" THEN option_count + 4
                     ELSE IF wpc = "find" THEN option_count + 3
                     ELSE IF wpc = "header" THEN option_count + 2
                     ELSE option_count - i + 1
         IN  atstart * (option_count + 5) + left

\* C14: CE_INI_Write comes to its return, since every step of it brings a
\* natural number down; the loop goes round again only after a pass that
\* wrote an entry and returns after the first pass that wrote none; a pass
\* that wrote none found every index written, so at the return every index
\* is written; and there are at most as many passes as distinct sections,
\* plus one.
C14_WriteTerminates ==
    /\ [](Variant \in Nat)
    /\ [][Variant' < Variant]_vars
    /\ [][(wpc = "entries" /\ wpc' = "find") => num_written > 0]_vars
    /\ [][(wpc = "entries" /\ wpc' = "ok") => num_written = 0]_vars
    /\ []((wpc = "entries" /\ i >= option_count /\ num_written = 0) => AllEmitted)
    /\ [](wpc = "ok" => AllEmitted)
    /\ [](option_count <= 256 => passes <= Cardinality(Sections) + 1)

\* 256 options in two sections written in three passes
C14_Witness ==
    /\ wpc = "ok"
    /\ option_count = 256
    /\ Cardinality(Sections) = 2
    /\ passes = 3
    /\ num_written = 0

\* a character a section body may hold
IsBodyChar(c) ==
    \/ c \in 48..57 \/ c \in 65..90 \/ c \in 97..122
    \/ c \in {MINUS, UNDERSCORE, SP}

\* the text starts with '[', n body characters and ']'
HasSection(n) ==
    /\ Len(text) >= n + 2
    /\ text[1] = LBRACKET
    /\ \A m \in 2..(n + 1) : IsBodyChar(text[m])
    /\ text[n + 2] = RBRACKET

\* C15: parseSection succeeds exactly on '[' body ']' with a body of 0 to 31
\* characters, each alphanumeric, '-', '_' or space; on success the name is
\* the body and the cursor is just past ']'; otherwise it returns NULL.
C15_ParseSection ==
    (phase = "section" /\ rpc # "run") =>
        /\ rpc = "ok" <=> \E n \in 0..31 : HasSection(n)
        /\ \A n \in 0..31 :
              HasSection(n) => section = SubSeq(text, 2, n + 1) /\ str = n + 3
        /\ rpc = "error" => str = NULL

\* a body of 31 characters, with text after the ']'
C15_Witness ==
    /\ phase = "section" /\ rpc = "ok"
    /\ Len(section) = 31
    /\ str = 34
    /\ Len(text) = 34

\* C16: every byte CE_INI_Write has stored, the terminators included, lies at
\* an offset below max_length.
C16_StoresWithinBuffer ==
    \A offset \in 0..(Len(buffer) - 1) :
        buffer[offset + 1] # Indeterminate => offset < max_length

\* C17: after every successful emit step the buffer holds a terminated
\* string: the offsets below bytes_written hold characters that were stored,
\* and the terminator is at offset bytes_written.
C17_TerminatedString ==
    (wpc # "error" /\ bytes_written > 0) =>
        /\ \A k \in 1..bytes_written : buffer[k] \notin {Indeterminate, NUL}
        /\ Len(buffer) > bytes_written
        /\ buffer[bytes_written + 1] = NUL

\* C18 as stated: neither the cursor of the document loop nor that of a
\* sub-parser ever stands beyond the terminating NUL.
C18_NeverPastTheNul ==
    /\ str <= Len(text) + 1
    /\ cursor <= Len(text) + 1

\* C18 amended: the read comes to its return, since every iteration of the
\* document loop either returns or moves str strictly forward, and str stays
\* within the text and its NUL; a sub-parser's own pointer stands beyond the
\* NUL only by one, only when the read fails in a quoted value whose last
\* character is a backslash (the NUL was read as the escaped character).
C18_ReadTerminates ==
    /\ [](str \in {NULL} \cup 1..(Len(text) + 1))
    /\ [](str = NULL <=> rpc = "error")
    /\ [][rpc = "run" => (rpc' \in {"ok", "error"} \/ str' > str)]_vars
    /\ [][rpc = "run" => cursor' >= str]_vars
    /\ [](cursor <= Len(text) + 2)
    /\ [](cursor = Len(text) + 2 =>
             /\ rpc = "error"
             /\ failed = "parseValue"
             /\ At(text, Len(text)) = BACKSLASH)

\* the input ends with a backslash inside a quoted value, after a delivered
\* entry
C18_Witness ==
    /\ phase = "read" /\ rpc = "error"
    /\ At(text, Len(text)) = BACKSLASH
    /\ cursor = Len(text) + 2
    /\ calls # <<>>

====
